---- MODULE Spec2Model ----
(***************************************************************************)
(* Model of Candlestick-patterns-with-extr-levels-optimizing.py: level     *)
(* detection, pattern classification, forward outcome simulation, accuracy *)
(* aggregation and the parameter grid search, and of the loop that names   *)
(* the pattern occurrence of a bar, which two sibling programs share.      *)
(*                                                                         *)
(* Conventions.  Python strings are sequences of tokens ("CDL", "DOJI",    *)
(* "_", "Bull", ...), so that `in` / str.contains are substring tests.     *)
(* DataFrame rows are 1-based sequence positions; the pandas label of the  *)
(* row at position i is i-1.  Prices are integers and every percentage     *)
(* comparison x < p * (1 - s/100) is evaluated exactly as                  *)
(* x * 100 < p * (100 - s).                                                *)
(***************************************************************************)
EXTENDS Integers, Sequences, FiniteSets, TLC

VARIABLES
    script,                \* the program of the repository that is running
    pc,                    \* position of the running function
    data,                  \* the bar series (crypto DataFrame)
    data2,                 \* a second bar series (second run of the pipeline)
    params,                \* the current parameter combination
    support_levels,        \* support levels handed to check_pattern_levels
    resistance_levels,     \* resistance levels handed to check_pattern_levels
    pattern_row,           \* position of the pattern row in data
    pattern_type,          \* "Bull", "L_Bull", "Bear", "L_Bear"
    pattern_stats,         \* the four category counters
    ret,                   \* value returned by the function under study
    ret2,                  \* value returned by the second run
    cfg,                   \* the six candidate lists
    it,                    \* positions of the six nested for loops
    combination_counter,
    pending,               \* results_by_candle items not yet handled
    results_file,          \* rows appended to optimization_results.csv
    saved_charts,
    best_accuracy,
    best_params,
    calls,                 \* parameter combinations passed to process_crypto_data
    examined               \* results taken from results_by_candle so far

vars == <<script, pc, data, data2, params, support_levels,
          resistance_levels,
          pattern_row, pattern_type, pattern_stats, ret, ret2, cfg, it,
          combination_counter, pending, results_file, saved_charts,
          best_accuracy, best_params, calls, examined>>

gridVars == <<cfg, it, combination_counter, pending, results_file,
              saved_charts, best_accuracy, best_params, calls, examined>>

----------------------------------------------------------------------------
(* Strings *)

\* the file names of the programs modelled
Optimizing == "Candlestick-patterns-with-extr-levels-optimizing.py"
ExtremumLevels == "Candlestic-patterns-with-extremum-levels.py"
PatternWithLevels == "Candlestick-pattern-with-levels.py"

\* Python `sub in s` and Series.str.contains(sub) for a literal pattern
Contains(s, sub) ==
    \E i \in 0..(Len(s) - Len(sub)) : SubSeq(s, i + 1, i + Len(sub)) = sub

EmptyStr == <<>>

Bull == <<"Bull">>
Bear == <<"Bear">>
L_Bull == <<"L", "_", "Bull">>
L_Bear == <<"L", "_", "Bear">>
PatternTypes == {Bull, Bear, L_Bull, L_Bear}

LabelBull == <<"_", "Bull">>
LabelBear == <<"_", "Bear">>

CDLDOJI == <<"CDL", "DOJI">>
CDLDOJISTAR == <<"CDL", "DOJI", "STAR">>
CDLHAMMER == <<"CDL", "HAMMER">>

\* talib pattern-recognition catalog, in catalog order
candle_names == <<CDLDOJI, CDLDOJISTAR, CDLHAMMER>>

----------------------------------------------------------------------------
(* Fixed thresholds *)

MIN_ACCURACY_THRESHOLD == 60
MIN_PREDICTIONS_COUNT == 3

----------------------------------------------------------------------------
(* Bounds *)

MaxPerfBars == 4
MaxLevelBars == 5
MaxLevels == 2
MaxCount == 2
MaxCausalBars == 4
MaxGridBars == 4
MaxFairBars == 2
MaxClassifyBars == 2
MaxClassifyLevels == 1
MaxLabelBars == 1

----------------------------------------------------------------------------
(* Bars *)

MkBar(t, c, h, l, p) ==
    [time |-> t, close |-> c, high |-> h, low |-> l, candlestick_pattern |-> p]

\* all series of exactly n bars whose i-th bar is drawn from Shapes and
\* carries time i (ascending time, no gaps)
SeriesOf(Shapes, n) ==
    { [i \in 1..n |-> MkBar(i, f[i].close, f[i].high, f[i].low,
                            f[i].candlestick_pattern)] : f \in [1..n -> Shapes] }

SeriesUpTo(Shapes, lo, hi) == UNION { SeriesOf(Shapes, n) : n \in lo..hi }

\* best_params = {}
EmptyDict == [candle |-> <<>>, extrema_order |-> 0, min_touches |-> 0,
              touch_threshold |-> 0, level_proximity_threshold |-> 0,
              target_percent |-> 0, stop_percent |-> 0]

NoParams == [extrema_order |-> 0, min_touches |-> 0, touch_threshold |-> 0,
             level_proximity_threshold |-> 0, target_percent |-> 0,
             stop_percent |-> 0]

----------------------------------------------------------------------------
(* analyze_pattern_performance *)

\* data.loc[pattern_idx + 1:]
future_data_OwnBar(d, idx) == SubSeq(d, idx, Len(d))

future_data(d, idx) == SubSeq(d, idx + 1, Len(d))

RECURSIVE ScanBull_TargetFirst(_, _, _, _)
ScanBull_TargetFirst(f, pattern_price, target_percent, stop_percent) ==
    IF f = <<>> THEN FALSE
    ELSE IF f[1].high * 100 >= pattern_price * (100 + target_percent) THEN TRUE
    ELSE IF f[1].low * 100 < pattern_price * (100 - stop_percent) THEN FALSE
    ELSE ScanBull_TargetFirst(Tail(f), pattern_price, target_percent, stop_percent)

\* the loop over future_data of the bull branch
RECURSIVE ScanBull(_, _, _, _)
ScanBull(f, pattern_price, target_percent, stop_percent) ==
    IF f = <<>> THEN FALSE
    ELSE IF f[1].low * 100 < pattern_price * (100 - stop_percent) THEN FALSE
    ELSE IF f[1].high * 100 >= pattern_price * (100 + target_percent) THEN TRUE
    ELSE ScanBull(Tail(f), pattern_price, target_percent, stop_percent)

\* a high equal to the stop price ending the trade
RECURSIVE ScanBear_StopInclusive(_, _, _, _)
ScanBear_StopInclusive(f, pattern_price, target_percent, stop_percent) ==
    IF f = <<>> THEN FALSE
    ELSE IF f[1].high * 100 >= pattern_price * (100 + stop_percent) THEN FALSE
    ELSE IF f[1].low * 100 <= pattern_price * (100 - target_percent) THEN TRUE
    ELSE ScanBear_StopInclusive(Tail(f), pattern_price, target_percent, stop_percent)

\* the loop over future_data of the bear branch
RECURSIVE ScanBear(_, _, _, _)
ScanBear(f, pattern_price, target_percent, stop_percent) ==
    IF f = <<>> THEN FALSE
    ELSE IF f[1].high * 100 > pattern_price * (100 + stop_percent) THEN FALSE
    ELSE IF f[1].low * 100 <= pattern_price * (100 - target_percent) THEN TRUE
    ELSE ScanBear(Tail(f), pattern_price, target_percent, stop_percent)

\* the target price taken from stop_percent and the stop price from target_percent
analyze_pattern_performance_PercentsSwapped(d, idx, ptype, target_percent, stop_percent) ==
    LET pattern_price == d[idx].close
        future == future_data(d, idx)
    IN  IF future = <<>> THEN FALSE
        ELSE IF Contains(ptype, Bull)
             THEN ScanBull(future, pattern_price, stop_percent, target_percent)
        ELSE IF Contains(ptype, Bear)
             THEN ScanBear(future, pattern_price, stop_percent, target_percent)
        ELSE FALSE

analyze_pattern_performance_MarkToMarket(d, idx, ptype, target_percent, stop_percent) ==
    LET pattern_price == d[idx].close
        future == future_data(d, idx)
    IN  IF future = <<>> THEN TRUE
        ELSE IF Contains(ptype, Bull)
             THEN ScanBull(future, pattern_price, target_percent, stop_percent)
                  \/ (/\ \A j \in 1..Len(future) :
                            /\ future[j].low * 100 >= pattern_price * (100 - stop_percent)
                            /\ future[j].high * 100 < pattern_price * (100 + target_percent)
                      /\ d[Len(d)].close >= pattern_price)
        ELSE IF Contains(ptype, Bear)
             THEN ScanBear(future, pattern_price, target_percent, stop_percent)
        ELSE FALSE

analyze_pattern_performance(d, idx, ptype, target_percent, stop_percent) ==
    LET pattern_price == d[idx].close
        future == future_data(d, idx)
    IN  IF future = <<>> THEN FALSE
        ELSE IF Contains(ptype, Bull)
             THEN ScanBull(future, pattern_price, target_percent, stop_percent)
        ELSE IF Contains(ptype, Bear)
             THEN ScanBear(future, pattern_price, target_percent, stop_percent)
        ELSE FALSE

----------------------------------------------------------------------------
(* find_extreme_levels *)

np_greater == "greater"
np_less == "less"

\* comparators that accept an equal neighbour
Apply_NotStrict(comparator, a, b) == IF comparator = np_greater THEN a >= b ELSE a =< b

\* comparator(a, b) for the two comparators the program passes
Apply(comparator, a, b) == IF comparator = np_greater THEN a > b ELSE a < b

Abs(x) == IF x < 0 THEN -x ELSE x

\* numpy take(..., mode='clip'): positions beyond an edge read the edge element
Clip(i, n) == IF i < 1 THEN 1 ELSE IF i > n THEN n ELSE i

Positions(n) == [i \in 1..n |-> i]

\* scipy.signal.argrelextrema(prices, comparator, order=order), default
\* mode='clip': position i is kept iff the comparator holds against the
\* elements at i+shift and i-shift, clipped to the array, for shift 1..order.
\* The positions come back in ascending order.
argrelextrema(prices, comparator, order) ==
    LET n == Len(prices)
        IsExtremum(i) ==
            \A shift \in 1..order :
                /\ Apply(comparator, prices[i], prices[Clip(i + shift, n)])
                /\ Apply(comparator, prices[i], prices[Clip(i - shift, n)])
    IN  SelectSeq(Positions(n), IsExtremum)

\* a close exactly touch_threshold percent away counted as a touch
TouchCount_Inclusive(d, level, touch_threshold) ==
    Cardinality({ i \in 1..Len(d) :
                    Abs(d[i].close - level) * 100 <= level * touch_threshold })

\* (data['close'] - level).abs().lt(level * touch_threshold / 100).sum()
TouchCount(d, level, touch_threshold) ==
    Cardinality({ i \in 1..Len(d) :
                    Abs(d[i].close - level) * 100 < level * touch_threshold })

find_extreme_levels(d, order, min_touches, touch_threshold) ==
    LET prices == [i \in 1..Len(d) |-> d[i].close]
        max_idx == argrelextrema(prices, np_greater, order)
        min_idx == argrelextrema(prices, np_less, order)
        resistance == [k \in 1..Len(max_idx) |->
                          <<d[max_idx[k]].close, d[max_idx[k]].time>>]
        support == [k \in 1..Len(min_idx) |->
                          <<d[min_idx[k]].close, d[min_idx[k]].time>>]
        Touched(lv) == TouchCount(d, lv[1], touch_threshold) >= min_touches
    IN  [support_levels |-> SelectSeq(support, Touched),
         resistance_levels |-> SelectSeq(resistance, Touched)]

----------------------------------------------------------------------------
(* check_pattern_levels *)

Qualifies_NotStrict(lv, price, time, level_proximity_threshold) ==
    /\ Abs(price - lv[1]) * 100 < price * level_proximity_threshold
    /\ time >= lv[2]

\* abs(price - level) / price < level_proximity_threshold / 100 and time > level_time
Qualifies(lv, price, time, level_proximity_threshold) ==
    /\ Abs(price - lv[1]) * 100 < price * level_proximity_threshold
    /\ time > lv[2]

\* for level, level_time in levels: if <qualifies>: <set flags>; break
RECURSIVE ScanLevels(_, _, _, _)
ScanLevels(levels, price, time, level_proximity_threshold) ==
    IF levels = <<>> THEN FALSE
    ELSE IF Qualifies(levels[1], price, time, level_proximity_threshold) THEN TRUE
    ELSE ScanLevels(Tail(levels), price, time, level_proximity_threshold)

\* only the first level of each list is tested
check_pattern_levels_FirstLevelOnly(price, time, support, resistance, level_proximity_threshold) ==
    LET First(levels) ==
            /\ levels # <<>>
            /\ Qualifies(levels[1], price, time, level_proximity_threshold)
    IN  [standard_bull |-> First(support),
         standard_bear |-> First(resistance),
         logical_bull |-> First(resistance),
         logical_bear |-> First(support)]

\* a flag set when every level of the list qualifies, not when one does
check_pattern_levels_AllLevels(price, time, support, resistance, level_proximity_threshold) ==
    LET All(levels) ==
            \A k \in 1..Len(levels) :
                Qualifies(levels[k], price, time, level_proximity_threshold)
    IN  [standard_bull |-> All(support),
         standard_bear |-> All(resistance),
         logical_bull |-> All(resistance),
         logical_bear |-> All(support)]

check_pattern_levels(price, time, support, resistance, level_proximity_threshold) ==
    LET near_support == ScanLevels(support, price, time, level_proximity_threshold)
        near_resistance == ScanLevels(resistance, price, time, level_proximity_threshold)
    IN  [standard_bull |-> near_support,
         standard_bear |-> near_resistance,
         logical_bull |-> near_resistance,
         logical_bear |-> near_support]

----------------------------------------------------------------------------
(* calculate_average_accuracy *)

RECURSIVE GCD(_, _)
GCD(a, b) == IF b = 0 THEN a ELSE GCD(b, a % b)

\* The float num / den as the exact fraction in lowest terms, so that equal
\* accuracies are equal values; den > 0.
Ratio(num, den) == LET g == GCD(num, den) IN <<num \div g, den \div g>>

Zero == <<0, 1>>
Percent(x) == <<x, 1>>

\* comparisons of two accuracies
Greater(a, b) == a[1] * b[2] > b[1] * a[2]
GreaterEq(a, b) == a[1] * b[2] >= b[1] * a[2]

PatternTypeKeys == <<Bull, Bear, L_Bull, L_Bear>>

NewStats == [k \in PatternTypes |-> [total |-> 0, success |-> 0]]

RECURSIVE SumField(_, _, _)
\* the accumulation loop: categories with total = 0 are skipped
SumField(stats, keys, field) ==
    IF keys = <<>> THEN 0
    ELSE (IF stats[keys[1]].total > 0 THEN stats[keys[1]][field] ELSE 0)
         + SumField(stats, Tail(keys), field)

\* the mean of the rates of the categories that have occurrences
calculate_average_accuracy_MeanOfRates(stats) ==
    LET total_patterns == SumField(stats, PatternTypeKeys, "total")
        Present == { k \in PatternTypes : stats[k].total > 0 }
        Den(k) == IF stats[k].total > 0 THEN stats[k].total ELSE 1
        common == Den(Bull) * Den(Bear) * Den(L_Bull) * Den(L_Bear)
        Share(k) == IF stats[k].total > 0
                    THEN stats[k].success * (common \div stats[k].total) ELSE 0
        rates == Share(Bull) + Share(Bear) + Share(L_Bull) + Share(L_Bear)
    IN  IF total_patterns >= MIN_PREDICTIONS_COUNT
        THEN <<Ratio(rates * 100, common * Cardinality(Present)), total_patterns>>
        ELSE <<Zero, total_patterns>>

calculate_average_accuracy_ZeroGuardOnly(stats) ==
    LET total_success == SumField(stats, PatternTypeKeys, "success")
        total_patterns == SumField(stats, PatternTypeKeys, "total")
    IN  IF total_patterns > 0
        THEN <<Ratio(total_success * 100, total_patterns), total_patterns>>
        ELSE <<Zero, total_patterns>>

calculate_average_accuracy(stats) ==
    LET total_success == SumField(stats, PatternTypeKeys, "success")
        total_patterns == SumField(stats, PatternTypeKeys, "total")
    IN  IF total_patterns >= MIN_PREDICTIONS_COUNT
        THEN <<Ratio(total_success * 100, total_patterns), total_patterns>>
        ELSE <<Zero, total_patterns>>

----------------------------------------------------------------------------
(* process_crypto_data *)

\* the logical tests placed before the standard test
ClassifyRow_LogicalFirst(row, support, resistance, level_proximity_threshold) ==
    IF row.candlestick_pattern = EmptyStr
    THEN [standard_pattern |-> FALSE, logical_pattern |-> FALSE, pattern_type |-> ""]
    ELSE
      LET check_results == check_pattern_levels(row.close, row.time, support,
                                                resistance, level_proximity_threshold)
          is_bull == Contains(row.candlestick_pattern, LabelBull)
          is_bear == Contains(row.candlestick_pattern, LabelBear)
      IN  IF is_bull /\ check_results.logical_bull
          THEN [standard_pattern |-> FALSE, logical_pattern |-> TRUE,
                pattern_type |-> "logical_bull"]
          ELSE IF is_bear /\ check_results.logical_bear
          THEN [standard_pattern |-> FALSE, logical_pattern |-> TRUE,
                pattern_type |-> "logical_bear"]
          ELSE IF (is_bull /\ check_results.standard_bull)
                  \/ (is_bear /\ check_results.standard_bear)
          THEN [standard_pattern |-> TRUE, logical_pattern |-> FALSE,
                pattern_type |-> "standard"]
          ELSE [standard_pattern |-> FALSE, logical_pattern |-> FALSE,
                pattern_type |-> ""]

\* the classification written to one row of the copy (lines 211-236)
ClassifyRow(row, support, resistance, level_proximity_threshold) ==
    IF row.candlestick_pattern = EmptyStr
    THEN [standard_pattern |-> FALSE, logical_pattern |-> FALSE, pattern_type |-> ""]
    ELSE
      LET check_results == check_pattern_levels(row.close, row.time, support,
                                                resistance, level_proximity_threshold)
          is_bull == Contains(row.candlestick_pattern, LabelBull)
          is_bear == Contains(row.candlestick_pattern, LabelBear)
      IN  IF (is_bull /\ check_results.standard_bull)
              \/ (is_bear /\ check_results.standard_bear)
          THEN [standard_pattern |-> TRUE, logical_pattern |-> FALSE,
                pattern_type |-> "standard"]
          ELSE IF is_bull /\ check_results.logical_bull
          THEN [standard_pattern |-> FALSE, logical_pattern |-> TRUE,
                pattern_type |-> "logical_bull"]
          ELSE IF is_bear /\ check_results.logical_bear
          THEN [standard_pattern |-> FALSE, logical_pattern |-> TRUE,
                pattern_type |-> "logical_bear"]
          ELSE [standard_pattern |-> FALSE, logical_pattern |-> FALSE,
                pattern_type |-> ""]

\* the copy of the series with its three classification columns
Classified(d, support, resistance, level_proximity_threshold) ==
    [i \in 1..Len(d) |->
        LET c == ClassifyRow(d[i], support, resistance, level_proximity_threshold)
        IN  [time |-> d[i].time, close |-> d[i].close, high |-> d[i].high,
             low |-> d[i].low, candlestick_pattern |-> d[i].candlestick_pattern,
             standard_pattern |-> c.standard_pattern,
             logical_pattern |-> c.logical_pattern,
             pattern_type |-> c.pattern_type]]

\* every standard row counted as Bull
CategoryOf_StandardIsBull(row) ==
    IF row.pattern_type = "standard" THEN Bull
    ELSE IF row.pattern_type = "logical_bull" THEN L_Bull
    ELSE IF row.pattern_type = "logical_bear" THEN L_Bear
    ELSE EmptyStr

\* the category key of a selected row (lines 260-271)
CategoryOf(row) ==
    IF row.pattern_type = "standard"
    THEN (IF Contains(row.candlestick_pattern, LabelBull) THEN Bull ELSE Bear)
    ELSE IF row.pattern_type = "logical_bull" THEN L_Bull
    ELSE IF row.pattern_type = "logical_bear" THEN L_Bear
    ELSE EmptyStr

RECURSIVE Aggregate_CountsWins(_, _, _, _, _)
\* a row enters its category's total only when it succeeds
Aggregate_CountsWins(crypto, rows, stats, target_percent, stop_percent) ==
    IF rows = <<>> THEN stats
    ELSE
      LET key == CategoryOf(crypto[rows[1]])
          won == analyze_pattern_performance(crypto, rows[1], key,
                                             target_percent, stop_percent)
          scored == IF won THEN [stats EXCEPT ![key].total = @ + 1,
                                              ![key].success = @ + 1]
                    ELSE stats
      IN  Aggregate_CountsWins(crypto, Tail(rows), scored, target_percent, stop_percent)

RECURSIVE Aggregate(_, _, _, _, _)
\* the loop over pattern_data.iterrows() (lines 259-278); rows are positions
Aggregate(crypto, rows, stats, target_percent, stop_percent) ==
    IF rows = <<>> THEN stats
    ELSE
      LET key == CategoryOf(crypto[rows[1]])
          won == analyze_pattern_performance(crypto, rows[1], key,
                                             target_percent, stop_percent)
          counted == [stats EXCEPT ![key].total = @ + 1]
          scored == IF won THEN [counted EXCEPT ![key].success = @ + 1]
                    ELSE counted
      IN  Aggregate(crypto, Tail(rows), scored, target_percent, stop_percent)

\* pattern_data for one candle name: the classified rows whose
\* candlestick_pattern contains the name
PatternData(crypto, candle) ==
    LET Selected(i) ==
            /\ crypto[i].standard_pattern \/ crypto[i].logical_pattern
            /\ Contains(crypto[i].candlestick_pattern, candle)
    IN  SelectSeq(Positions(Len(crypto)), Selected)

RECURSIVE ResultsByCandle(_, _, _, _)
\* the loop over candle_names (lines 245-289), insertion order kept
ResultsByCandle(crypto, names, target_percent, stop_percent) ==
    IF names = <<>> THEN <<>>
    ELSE
      LET candle == names[1]
          pattern_data == PatternData(crypto, candle)
          stats == Aggregate(crypto, pattern_data, NewStats,
                             target_percent, stop_percent)
          acc == calculate_average_accuracy(stats)
          rest == ResultsByCandle(crypto, Tail(names), target_percent, stop_percent)
      IN  IF pattern_data = <<>> THEN rest
          ELSE <<[candle |-> candle, pattern_stats |-> stats,
                  avg_accuracy |-> acc[1], total_predictions |-> acc[2],
                  pattern_data |-> pattern_data]>> \o rest

\* the pattern_type column of the copy after the classification loop
PatternTypeColumn(d, q) ==
    LET levels == find_extreme_levels(d, q.extrema_order, q.min_touches,
                                      q.touch_threshold)
        crypto == Classified(d, levels.support_levels, levels.resistance_levels,
                             q.level_proximity_threshold)
    IN  [i \in 1..Len(d) |-> crypto[i].pattern_type]

process_crypto_data(d, q) ==
    LET levels == find_extreme_levels(d, q.extrema_order, q.min_touches,
                                      q.touch_threshold)
        crypto == Classified(d, levels.support_levels, levels.resistance_levels,
                             q.level_proximity_threshold)
    IN  [support_levels |-> levels.support_levels,
         resistance_levels |-> levels.resistance_levels,
         results_by_candle |-> ResultsByCandle(crypto, candle_names,
                                               q.target_percent, q.stop_percent)]

----------------------------------------------------------------------------
(* SpecPerf: analyze_pattern_performance on bounded inputs *)

\* entry 100; lows and highs on, inside and beyond the 2% and 5% prices
PerfShapes ==
    { MkBar(0, 100, h, l, EmptyStr) : h \in {102, 105}, l \in {95, 98} }

PerfPercents == {2, 5}

\* the grid search is not running
GridIdle ==
    /\ cfg = <<>>
    /\ it = <<>>
    /\ combination_counter = 0
    /\ pending = <<>>
    /\ results_file = <<>>
    /\ saved_charts = 0
    /\ best_accuracy = Zero
    /\ best_params = EmptyDict
    /\ calls = <<>>
    /\ examined = <<>>

InitPerf ==
    /\ script = Optimizing
    /\ pc = "start"
    /\ data \in SeriesUpTo(PerfShapes, 1, MaxPerfBars)
    /\ data2 = <<>>
    /\ pattern_row \in 1..Len(data)
    /\ pattern_type \in PatternTypes
    /\ \E t \in PerfPercents, s \in PerfPercents :
          params = [NoParams EXCEPT !.target_percent = t, !.stop_percent = s]
    /\ support_levels = <<>>
    /\ resistance_levels = <<>>
    /\ pattern_stats = <<>>
    /\ ret = FALSE
    /\ ret2 = FALSE
    /\ GridIdle

Analyze ==
    /\ pc = "start"
    /\ ret' = analyze_pattern_performance(data, pattern_row, pattern_type,
                                          params.target_percent, params.stop_percent)
    /\ pc' = "done"
    /\ UNCHANGED <<script, data, data2, params, support_levels,
                   resistance_levels,
                   pattern_row, pattern_type, pattern_stats, ret2>>
    /\ UNCHANGED gridVars

NextPerf == Analyze

SpecPerf == InitPerf /\ [][NextPerf]_vars

----------------------------------------------------------------------------
(* SpecLevels: find_extreme_levels on bounded inputs *)

LevelCloses == {100, 102, 104}
LevelShapes == { MkBar(0, c, c, c, EmptyStr) : c \in LevelCloses }
LevelOrders == {1, 2, 3}
LevelTouches == {1, 2}
LevelThresholds == {1, 2, 3}

InitLevels ==
    /\ script = Optimizing
    /\ pc = "start"
    /\ data \in SeriesUpTo(LevelShapes, 1, MaxLevelBars)
    /\ data2 = <<>>
    /\ \E w \in LevelOrders, m \in LevelTouches, t \in LevelThresholds :
          params = [NoParams EXCEPT !.extrema_order = w, !.min_touches = m,
                                    !.touch_threshold = t]
    /\ pattern_row = 0
    /\ pattern_type = EmptyStr
    /\ support_levels = <<>>
    /\ resistance_levels = <<>>
    /\ pattern_stats = <<>>
    /\ ret = FALSE
    /\ ret2 = FALSE
    /\ GridIdle

\* a call that takes the bars of the levels it returns out of the frame
FindLevels_InPlace ==
    /\ pc = "start"
    /\ LET found == find_extreme_levels(data, params.extrema_order,
                                        params.min_touches, params.touch_threshold)
           Left(bar) ==
               /\ \A k \in 1..Len(found.support_levels) :
                     found.support_levels[k][2] # bar.time
               /\ \A k \in 1..Len(found.resistance_levels) :
                     found.resistance_levels[k][2] # bar.time
       IN  /\ ret' = found
           /\ data' = SelectSeq(data, Left)
    /\ pc' = "done"
    /\ UNCHANGED <<script, data2, params, support_levels, resistance_levels,
                   pattern_row, pattern_type, pattern_stats, ret2>>
    /\ UNCHANGED gridVars

FindLevels ==
    /\ pc = "start"
    /\ ret' = find_extreme_levels(data, params.extrema_order, params.min_touches,
                                  params.touch_threshold)
    /\ pc' = "done"
    /\ UNCHANGED <<script, data, data2, params, support_levels,
                   resistance_levels,
                   pattern_row, pattern_type, pattern_stats, ret2>>
    /\ UNCHANGED gridVars

NextLevels == FindLevels

SpecLevels == InitLevels /\ [][NextLevels]_vars

\* a second call with the same arguments on the frame the first call left
FindLevelsAgain ==
    /\ pc = "done"
    /\ ret2' = find_extreme_levels(data, params.extrema_order, params.min_touches,
                                   params.touch_threshold)
    /\ pc' = "again"
    /\ UNCHANGED <<script, data, data2, params, support_levels,
                   resistance_levels,
                   pattern_row, pattern_type, pattern_stats, ret>>
    /\ UNCHANGED gridVars

NextRepeat == FindLevels \/ FindLevelsAgain

SpecRepeat == InitLevels /\ [][NextRepeat]_vars

----------------------------------------------------------------------------
(* SpecCheck: check_pattern_levels on bounded inputs *)

CheckSeries == SeriesOf({ MkBar(0, 102, 102, 102, CDLDOJI \o LabelBull) }, 3)
CheckLevels == { <<price, time>> : price \in {100, 102}, time \in 1..3 }
CheckProximities == {1, 2, 3}

SeqsUpTo(S, n) == UNION { [1..k -> S] : k \in 0..n }

InitCheck ==
    /\ script = Optimizing
    /\ pc = "start"
    /\ data \in CheckSeries
    /\ data2 = <<>>
    /\ pattern_row \in 1..Len(data)
    /\ pattern_type = EmptyStr
    /\ \E q \in CheckProximities :
          params = [NoParams EXCEPT !.level_proximity_threshold = q]
    /\ support_levels \in SeqsUpTo(CheckLevels, MaxLevels)
    /\ resistance_levels \in SeqsUpTo(CheckLevels, MaxLevels)
    /\ pattern_stats = <<>>
    /\ ret = FALSE
    /\ ret2 = FALSE
    /\ GridIdle

CheckLevelsOfRow ==
    /\ pc = "start"
    /\ ret' = check_pattern_levels(data[pattern_row].close, data[pattern_row].time,
                                   support_levels, resistance_levels,
                                   params.level_proximity_threshold)
    /\ pc' = "done"
    /\ UNCHANGED <<script, data, data2, params, support_levels,
                   resistance_levels,
                   pattern_row, pattern_type, pattern_stats, ret2>>
    /\ UNCHANGED gridVars

NextCheck == CheckLevelsOfRow

SpecCheck == InitCheck /\ [][NextCheck]_vars

----------------------------------------------------------------------------
(* SpecAcc: calculate_average_accuracy on bounded counters *)

Counters == { [total |-> t, success |-> u] : t \in 0..MaxCount, u \in 0..MaxCount }

InitAcc ==
    /\ script = Optimizing
    /\ pc = "start"
    /\ data = <<>>
    /\ data2 = <<>>
    /\ params = NoParams
    /\ pattern_row = 0
    /\ pattern_type = EmptyStr
    /\ support_levels = <<>>
    /\ resistance_levels = <<>>
    /\ pattern_stats \in [PatternTypes -> { c \in Counters : c.success <= c.total }]
    /\ ret = FALSE
    /\ ret2 = FALSE
    /\ GridIdle

Average ==
    /\ pc = "start"
    /\ ret' = calculate_average_accuracy(pattern_stats)
    /\ pc' = "done"
    /\ UNCHANGED <<script, data, data2, params, support_levels,
                   resistance_levels,
                   pattern_row, pattern_type, pattern_stats, ret2>>
    /\ UNCHANGED gridVars

NextAcc == Average

SpecAcc == InitAcc /\ [][NextAcc]_vars

----------------------------------------------------------------------------
(* SpecCausal: the classification loop of process_crypto_data run on two    *)
(* bar series                                                              *)

CausalShapes ==
    { MkBar(0, 100, 100, 100, EmptyStr), MkBar(0, 104, 104, 104, EmptyStr),
      MkBar(0, 102, 102, 102, CDLDOJI \o LabelBull) }
CausalOrders == {1, 2}
CausalTouches == {1, 2}

InitCausal ==
    /\ script = Optimizing
    /\ pc = "start"
    /\ data \in SeriesUpTo(CausalShapes, 1, MaxCausalBars)
    /\ data2 \in SeriesUpTo(CausalShapes, 1, MaxCausalBars)
    /\ \E w \in CausalOrders, m \in CausalTouches :
          params = [NoParams EXCEPT !.extrema_order = w, !.min_touches = m,
                                    !.touch_threshold = 1,
                                    !.level_proximity_threshold = 3]
    /\ pattern_row = 0
    /\ pattern_type = EmptyStr
    /\ support_levels = <<>>
    /\ resistance_levels = <<>>
    /\ pattern_stats = <<>>
    /\ ret = FALSE
    /\ ret2 = FALSE
    /\ GridIdle

ClassifyBoth ==
    /\ pc = "start"
    /\ ret' = PatternTypeColumn(data, params)
    /\ ret2' = PatternTypeColumn(data2, params)
    /\ pc' = "done"
    /\ UNCHANGED <<script, data, data2, params, support_levels,
                   resistance_levels,
                   pattern_row, pattern_type, pattern_stats>>
    /\ UNCHANGED gridVars

NextCausal == ClassifyBoth

SpecCausal == InitCausal /\ [][NextCausal]_vars

----------------------------------------------------------------------------
(* SpecClassify: the classification and statistics of process_crypto_data  *)
(* (lines 205-289) for given level lists                                    *)

ClassifyShapes ==
    { MkBar(0, 102, 102, 102, EmptyStr),
      MkBar(0, 102, 102, 102, CDLDOJI \o LabelBull),
      MkBar(0, 102, 102, 102, CDLHAMMER \o LabelBear) }
ClassifyLevels == { <<100, 1>>, <<102, 1>>, <<102, 2>> }

InitClassify ==
    /\ script = Optimizing
    /\ pc = "start"
    /\ data \in SeriesOf(ClassifyShapes, MaxClassifyBars)
    /\ data2 = <<>>
    /\ pattern_row = 0
    /\ pattern_type = EmptyStr
    /\ \E q \in CheckProximities :
          params = [NoParams EXCEPT !.level_proximity_threshold = q,
                                    !.target_percent = 2, !.stop_percent = 2]
    /\ support_levels \in SeqsUpTo(ClassifyLevels, MaxClassifyLevels)
    /\ resistance_levels \in SeqsUpTo(ClassifyLevels, MaxClassifyLevels)
    /\ pattern_stats = <<>>
    /\ ret = FALSE
    /\ ret2 = FALSE
    /\ GridIdle

\* ret is the classified copy, ret2 the results per candle name
ClassifyAndCount ==
    /\ pc = "start"
    /\ LET crypto == Classified(data, support_levels, resistance_levels,
                                params.level_proximity_threshold)
       IN  /\ ret' = crypto
           /\ ret2' = ResultsByCandle(crypto, candle_names, params.target_percent,
                                      params.stop_percent)
    /\ pc' = "done"
    /\ UNCHANGED <<script, data, data2, params, support_levels,
                   resistance_levels,
                   pattern_row, pattern_type, pattern_stats>>
    /\ UNCHANGED gridVars

NextClassify == ClassifyAndCount

SpecClassify == InitClassify /\ [][NextClassify]_vars

----------------------------------------------------------------------------
(* SpecLabel: the loop that names the pattern occurrence of each bar from   *)
(* the catalog signals (lines 454-466; the same loop in                    *)
(* Candlestic-patterns-with-extremum-levels.py, lines 90-102, and its       *)
(* variant in Candlestick-pattern-with-levels.py, lines 89-101)             *)

\* values of a pattern recognition column after fillna(0)
Signals == {-100, 0, 100, 200}

\* a row with its catalog columns: signals[k] is row[candle_names[k]]
LabelRows ==
    { [time |-> 0, close |-> 100, high |-> 100, low |-> 100,
       candlestick_pattern |-> EmptyStr, candlestick_match_count |-> 0,
       signals |-> g] : g \in [1..Len(candle_names) -> Signals] }

\* list(compress(row[candle_names].keys(), row[candle_names].values != 0))
detected_patterns(row) ==
    LET Fires(k) == row.signals[k] # 0
    IN  SelectSeq(Positions(Len(candle_names)), Fires)

\* the body of the loop for one row; Candlestick-pattern-with-levels.py
\* requires len(detected_patterns) == 1, the other programs > 0
LabelRow(program, row) ==
    LET detected == detected_patterns(row)
        chosen == IF program = PatternWithLevels
                  THEN Len(detected) = 1
                  ELSE Len(detected) > 0
    IN  IF chosen
        THEN LET best_pattern == detected[1]
                 label == IF row.signals[best_pattern] > 0
                          THEN LabelBull ELSE LabelBear
             IN  [row EXCEPT
                    !.candlestick_pattern = candle_names[best_pattern] \o label,
                    !.candlestick_match_count = Len(detected)]
        ELSE row

InitLabel ==
    /\ script \in {Optimizing, ExtremumLevels, PatternWithLevels}
    /\ pc = "start"
    /\ \E n \in 1..MaxLabelBars : \E f \in [1..n -> LabelRows] :
          data = [i \in 1..n |-> [f[i] EXCEPT !.time = i]]
    /\ data2 = <<>>
    /\ params = NoParams
    /\ pattern_row = 0
    /\ pattern_type = EmptyStr
    /\ support_levels = <<>>
    /\ resistance_levels = <<>>
    /\ pattern_stats = <<>>
    /\ ret = FALSE
    /\ ret2 = FALSE
    /\ GridIdle

\* for index, row in crypto.iterrows(): ...
LabelBars ==
    /\ pc = "start"
    /\ data' = [i \in 1..Len(data) |-> LabelRow(script, data[i])]
    /\ pc' = "done"
    /\ UNCHANGED <<script, data2, params, support_levels, resistance_levels,
                   pattern_row, pattern_type, pattern_stats, ret, ret2>>
    /\ UNCHANGED gridVars

NextLabel == LabelBars

SpecLabel == InitLabel /\ [][NextLabel]_vars

----------------------------------------------------------------------------
(* Spec: the grid search of optimize_parameters *)

ListNames == <<"EXTREMA_ORDER_VALUES", "MIN_LEVEL_TOUCHES_VALUES",
               "LEVEL_TOUCH_THRESHOLD_VALUES", "LEVEL_PROXIMITY_THRESHOLD_VALUES",
               "TARGET_PERCENT_VALUES", "STOP_PERCENT_VALUES">>

\* number of values of the i-th candidate list, outermost loop first
ListLen(c, i) == Len(c[ListNames[i]])

total_combinations(c) ==
    ListLen(c, 1) * ListLen(c, 2) * ListLen(c, 3)
        * ListLen(c, 4) * ListLen(c, 5) * ListLen(c, 6)

\* the loop variables at loop positions v
ParamsAt(c, v) ==
    [extrema_order |-> c.EXTREMA_ORDER_VALUES[v[1]],
     min_touches |-> c.MIN_LEVEL_TOUCHES_VALUES[v[2]],
     touch_threshold |-> c.LEVEL_TOUCH_THRESHOLD_VALUES[v[3]],
     level_proximity_threshold |-> c.LEVEL_PROXIMITY_THRESHOLD_VALUES[v[4]],
     target_percent |-> c.TARGET_PERCENT_VALUES[v[5]],
     stop_percent |-> c.STOP_PERCENT_VALUES[v[6]]]

FirstPositions == <<1, 1, 1, 1, 1, 1>>

\* some loop of the nest has a further value
HasNext(c, v) == \E i \in 1..6 : v[i] < ListLen(c, i)

Advance_NoReset(c, v) ==
    LET k == CHOOSE i \in 1..6 :
                 /\ v[i] < ListLen(c, i)
                 /\ \A j \in (i + 1)..6 : v[j] = ListLen(c, j)
    IN  [i \in 1..6 |-> IF i = k THEN v[i] + 1 ELSE v[i]]

\* the six nested for loops: the innermost loop that has a further value
\* steps, and every loop inside it starts over
Advance(c, v) ==
    LET k == CHOOSE i \in 1..6 :
                 /\ v[i] < ListLen(c, i)
                 /\ \A j \in (i + 1)..6 : v[j] = ListLen(c, j)
    IN  [i \in 1..6 |-> IF i < k THEN v[i] ELSE IF i = k THEN v[i] + 1 ELSE 1]

\* f"{avg_accuracy:.1f}": the accuracy in tenths, rounded half to even
Format1f(a) ==
    LET q == (a[1] * 10) \div a[2]
        r == (a[1] * 10) % a[2]
    IN  IF 2 * r > a[2] THEN q + 1
        ELSE IF 2 * r = a[2] THEN (IF q % 2 = 1 THEN q + 1 ELSE q)
        ELSE q

\* the line written to optimization_results.csv (lines 538-540)
Row(q, r) ==
    [extrema_order |-> q.extrema_order, min_touches |-> q.min_touches,
     touch_threshold |-> q.touch_threshold,
     level_proximity_threshold |-> q.level_proximity_threshold,
     target_percent |-> q.target_percent, stop_percent |-> q.stop_percent,
     candle_name |-> r.candle, avg_accuracy |-> Format1f(r.avg_accuracy),
     total_predictions |-> r.total_predictions]

\* the test without its accuracy half
Kept_PredictionsOnly(r) ==
    r.total_predictions >= MIN_PREDICTIONS_COUNT

\* avg_accuracy >= MIN_ACCURACY_THRESHOLD and total_predictions >= MIN_PREDICTIONS_COUNT
Kept(r) ==
    /\ GreaterEq(r.avg_accuracy, Percent(MIN_ACCURACY_THRESHOLD))
    /\ r.total_predictions >= MIN_PREDICTIONS_COUNT

\* {'candle': candle, **params}
BestParams(candle, q) ==
    [candle |-> candle, extrema_order |-> q.extrema_order,
     min_touches |-> q.min_touches, touch_threshold |-> q.touch_threshold,
     level_proximity_threshold |-> q.level_proximity_threshold,
     target_percent |-> q.target_percent, stop_percent |-> q.stop_percent]

GridShapes ==
    { MkBar(0, 100, 100, 100, EmptyStr),
      MkBar(0, 104, 104, 104, EmptyStr),
      MkBar(0, 102, 102, 102, CDLDOJI \o LabelBull),
      MkBar(0, 102, 102, 102, CDLDOJISTAR \o LabelBull),
      MkBar(0, 100, 100, 100, CDLDOJISTAR \o LabelBull),
      MkBar(0, 102, 102, 102, CDLHAMMER \o LabelBear) }

\* a fall from 104 to 100, which the next bar can turn into a support level
LevelPrefix == <<MkBar(1, 104, 104, 104, EmptyStr), MkBar(2, 100, 100, 100, EmptyStr)>>

\* the series that continue LevelPrefix with n bars drawn from Shapes
SeriesAfterPrefix(Shapes, n) ==
    { [i \in 1..(n + 2) |->
          IF i <= 2 THEN LevelPrefix[i]
          ELSE MkBar(i, f[i - 2].close, f[i - 2].high, f[i - 2].low,
                     f[i - 2].candlestick_pattern)] : f \in [1..n -> Shapes] }

\* outcomes vary with the target and the stop
GridOutcomes ==
    [EXTREMA_ORDER_VALUES |-> <<1>>, MIN_LEVEL_TOUCHES_VALUES |-> <<1>>,
     LEVEL_TOUCH_THRESHOLD_VALUES |-> <<1>>,
     LEVEL_PROXIMITY_THRESHOLD_VALUES |-> <<5>>,
     TARGET_PERCENT_VALUES |-> <<1, 3>>, STOP_PERCENT_VALUES |-> <<1, 3>>]

\* every loop of the nest has more than one value
GridFull ==
    [EXTREMA_ORDER_VALUES |-> <<1, 2>>, MIN_LEVEL_TOUCHES_VALUES |-> <<1, 2>>,
     LEVEL_TOUCH_THRESHOLD_VALUES |-> <<1, 3>>,
     LEVEL_PROXIMITY_THRESHOLD_VALUES |-> <<1, 5>>,
     TARGET_PERCENT_VALUES |-> <<1, 3>>, STOP_PERCENT_VALUES |-> <<1, 2, 3>>]

Init ==
    /\ script = Optimizing
    /\ pc = "loop"
    /\ \/ /\ cfg = GridOutcomes
          /\ data \in SeriesUpTo(GridShapes, 1, MaxGridBars)
                       \cup SeriesAfterPrefix(GridShapes, MaxGridBars)
       \/ /\ cfg = GridFull
          /\ data \in SeriesOf(CausalShapes, 3)
    /\ data2 = <<>>
    /\ params = NoParams
    /\ pattern_row = 0
    /\ pattern_type = EmptyStr
    /\ support_levels = <<>>
    /\ resistance_levels = <<>>
    /\ pattern_stats = <<>>
    /\ ret = FALSE
    /\ ret2 = FALSE
    /\ it = FirstPositions
    /\ combination_counter = 0
    /\ pending = <<>>
    /\ results_file = <<>>
    /\ saved_charts = 0
    /\ best_accuracy = Zero
    /\ best_params = EmptyDict
    /\ calls = <<>>
    /\ examined = <<>>

\* process_crypto_data working on the frame it receives instead of a copy,
\* and dropping there the label of every occurrence it leaves unclassified
NextCombination_InPlace ==
    /\ pc = "loop"
    /\ pending = <<>>
    /\ IF combination_counter = 0
       THEN \A i \in 1..6 : ListLen(cfg, i) > 0
       ELSE HasNext(cfg, it)
    /\ LET v == IF combination_counter = 0 THEN FirstPositions ELSE Advance(cfg, it)
           q == ParamsAt(cfg, v)
           results == process_crypto_data(data, q)
           column == PatternTypeColumn(data, q)
       IN  /\ it' = v
           /\ params' = q
           /\ combination_counter' = combination_counter + 1
           /\ calls' = Append(calls, q)
           /\ support_levels' = results.support_levels
           /\ resistance_levels' = results.resistance_levels
           /\ pending' = results.results_by_candle
           /\ data' = [i \in 1..Len(data) |->
                          IF column[i] = ""
                          THEN [data[i] EXCEPT !.candlestick_pattern = EmptyStr]
                          ELSE data[i]]
    /\ UNCHANGED <<script, pc, data2, pattern_row, pattern_type, pattern_stats,
                   ret, ret2, cfg, results_file, saved_charts, best_accuracy,
                   best_params, examined>>

\* one pass of the innermost loop header and body up to the call of
\* process_crypto_data (lines 492-529)
NextCombination ==
    /\ pc = "loop"
    /\ pending = <<>>
    /\ IF combination_counter = 0
       THEN \A i \in 1..6 : ListLen(cfg, i) > 0
       ELSE HasNext(cfg, it)
    /\ LET v == IF combination_counter = 0 THEN FirstPositions ELSE Advance(cfg, it)
           q == ParamsAt(cfg, v)
           results == process_crypto_data(data, q)
       IN  /\ it' = v
           /\ params' = q
           /\ combination_counter' = combination_counter + 1
           /\ calls' = Append(calls, q)
           /\ support_levels' = results.support_levels
           /\ resistance_levels' = results.resistance_levels
           /\ pending' = results.results_by_candle
    /\ UNCHANGED <<script, pc, data, data2, pattern_row, pattern_type,
                   pattern_stats,
                   ret, ret2, cfg, results_file, saved_charts, best_accuracy,
                   best_params, examined>>

\* the best found updated only when the chart was saved
HandleResult_BestNeedsChart ==
    /\ pc = "loop"
    /\ pending # <<>>
    /\ LET r == Head(pending)
       IN  /\ results_file' = Append(results_file, Row(params, r))
           /\ examined' = Append(examined,
                  [params |-> params, candle |-> r.candle,
                   avg_accuracy |-> r.avg_accuracy,
                   total_predictions |-> r.total_predictions,
                   chart_called |-> Kept(r)])
           /\ \E chart_saved \in (IF Kept(r) THEN BOOLEAN ELSE {FALSE}) :
                 /\ saved_charts' = IF chart_saved THEN saved_charts + 1
                                    ELSE saved_charts
                 /\ IF chart_saved /\ Greater(r.avg_accuracy, best_accuracy)
                    THEN /\ best_accuracy' = r.avg_accuracy
                         /\ best_params' = BestParams(r.candle, params)
                    ELSE UNCHANGED <<best_accuracy, best_params>>
           /\ pending' = Tail(pending)
    /\ UNCHANGED <<script, pc, data, data2, params, support_levels,
                   resistance_levels, pattern_row, pattern_type, pattern_stats,
                   ret, ret2, cfg, it, combination_counter, calls>>

\* every kept result replaces the best found, greater or not
HandleResult_LastKeptWins ==
    /\ pc = "loop"
    /\ pending # <<>>
    /\ LET r == Head(pending)
       IN  /\ results_file' = Append(results_file, Row(params, r))
           /\ examined' = Append(examined,
                  [params |-> params, candle |-> r.candle,
                   avg_accuracy |-> r.avg_accuracy,
                   total_predictions |-> r.total_predictions,
                   chart_called |-> Kept(r)])
           /\ \E chart_saved \in (IF Kept(r) THEN BOOLEAN ELSE {FALSE}) :
                 saved_charts' = IF chart_saved THEN saved_charts + 1
                                 ELSE saved_charts
           /\ IF Kept(r)
              THEN /\ best_accuracy' = r.avg_accuracy
                   /\ best_params' = BestParams(r.candle, params)
              ELSE UNCHANGED <<best_accuracy, best_params>>
           /\ pending' = Tail(pending)
    /\ UNCHANGED <<script, pc, data, data2, params, support_levels,
                   resistance_levels, pattern_row, pattern_type, pattern_stats,
                   ret, ret2, cfg, it, combination_counter, calls>>

HandleResult_KeptOnly ==
    /\ pc = "loop"
    /\ pending # <<>>
    /\ LET r == Head(pending)
       IN  /\ results_file' = IF Kept(r) THEN Append(results_file, Row(params, r))
                              ELSE results_file
           /\ examined' = Append(examined,
                  [params |-> params, candle |-> r.candle,
                   avg_accuracy |-> r.avg_accuracy,
                   total_predictions |-> r.total_predictions,
                   chart_called |-> Kept(r)])
           /\ \E chart_saved \in (IF Kept(r) THEN BOOLEAN ELSE {FALSE}) :
                 saved_charts' = IF chart_saved THEN saved_charts + 1 ELSE saved_charts
           /\ IF Kept(r) /\ Greater(r.avg_accuracy, best_accuracy)
              THEN /\ best_accuracy' = r.avg_accuracy
                   /\ best_params' = BestParams(r.candle, params)
              ELSE UNCHANGED <<best_accuracy, best_params>>
           /\ pending' = Tail(pending)
    /\ UNCHANGED <<script, pc, data, data2, params, support_levels,
                   resistance_levels,
                   pattern_row, pattern_type, pattern_stats, ret, ret2, cfg, it,
                   combination_counter, calls>>

HandleResult_TieReplaces ==
    /\ pc = "loop"
    /\ pending # <<>>
    /\ LET r == Head(pending)
       IN  /\ results_file' = Append(results_file, Row(params, r))
           /\ examined' = Append(examined,
                  [params |-> params, candle |-> r.candle,
                   avg_accuracy |-> r.avg_accuracy,
                   total_predictions |-> r.total_predictions,
                   chart_called |-> Kept(r)])
           /\ \E chart_saved \in (IF Kept(r) THEN BOOLEAN ELSE {FALSE}) :
                 saved_charts' = IF chart_saved THEN saved_charts + 1 ELSE saved_charts
           /\ IF Kept(r) /\ GreaterEq(r.avg_accuracy, best_accuracy)
              THEN /\ best_accuracy' = r.avg_accuracy
                   /\ best_params' = BestParams(r.candle, params)
              ELSE UNCHANGED <<best_accuracy, best_params>>
           /\ pending' = Tail(pending)
    /\ UNCHANGED <<script, pc, data, data2, params, support_levels,
                   resistance_levels,
                   pattern_row, pattern_type, pattern_stats, ret, ret2, cfg, it,
                   combination_counter, calls>>

\* one pass of the loop over results_by_candle (lines 532-577): the row is
\* appended, a kept result goes to create_and_save_chart, whose outcome
\* (saved or not) is the file system's, and may become the best
\* (chart_called records whether create_and_save_chart was called)
HandleResult ==
    /\ pc = "loop"
    /\ pending # <<>>
    /\ LET r == Head(pending)
       IN  /\ results_file' = Append(results_file, Row(params, r))
           /\ examined' = Append(examined,
                  [params |-> params, candle |-> r.candle,
                   avg_accuracy |-> r.avg_accuracy,
                   total_predictions |-> r.total_predictions,
                   chart_called |-> Kept(r)])
           /\ \E chart_saved \in (IF Kept(r) THEN BOOLEAN ELSE {FALSE}) :
                 saved_charts' = IF chart_saved THEN saved_charts + 1 ELSE saved_charts
           /\ IF Kept(r) /\ Greater(r.avg_accuracy, best_accuracy)
              THEN /\ best_accuracy' = r.avg_accuracy
                   /\ best_params' = BestParams(r.candle, params)
              ELSE UNCHANGED <<best_accuracy, best_params>>
           /\ pending' = Tail(pending)
    /\ UNCHANGED <<script, pc, data, data2, params, support_levels,
                   resistance_levels,
                   pattern_row, pattern_type, pattern_stats, ret, ret2, cfg, it,
                   combination_counter, calls>>

\* open(results_file, 'a') or write raises: nothing catches it (lines 537-540)
RowAppendFails ==
    /\ pc = "loop"
    /\ pending # <<>>
    /\ pc' = "aborted"
    /\ UNCHANGED <<script, data, data2, params, support_levels,
                   resistance_levels,
                   pattern_row, pattern_type, pattern_stats, ret, ret2>>
    /\ UNCHANGED gridVars

\* the loop nest is exhausted: return best_params, best_accuracy (lines 579-608)
Finish ==
    /\ pc = "loop"
    /\ pending = <<>>
    /\ IF combination_counter = 0
       THEN \E i \in 1..6 : ListLen(cfg, i) = 0
       ELSE ~HasNext(cfg, it)
    /\ pc' = "done"
    /\ ret' = <<best_params, best_accuracy>>
    /\ UNCHANGED <<script, data, data2, params, support_levels,
                   resistance_levels,
                   pattern_row, pattern_type, pattern_stats, ret2>>
    /\ UNCHANGED gridVars

Next == NextCombination \/ HandleResult \/ RowAppendFails \/ Finish

Spec == Init /\ [][Next]_vars

\* a candidate list without a value: the loop nest has no pass at all
GridNoStop ==
    [GridOutcomes EXCEPT !.STOP_PERCENT_VALUES = <<>>]

InitFair ==
    /\ script = Optimizing
    /\ pc = "loop"
    /\ cfg \in {GridOutcomes, GridNoStop}
    /\ data \in SeriesUpTo(GridShapes, 1, MaxFairBars)
                 \cup SeriesAfterPrefix(GridShapes, MaxFairBars)
    /\ data2 = <<>>
    /\ params = NoParams
    /\ pattern_row = 0
    /\ pattern_type = EmptyStr
    /\ support_levels = <<>>
    /\ resistance_levels = <<>>
    /\ pattern_stats = <<>>
    /\ ret = <<>>
    /\ ret2 = FALSE
    /\ it = FirstPositions
    /\ combination_counter = 0
    /\ pending = <<>>
    /\ results_file = <<>>
    /\ saved_charts = 0
    /\ best_accuracy = Zero
    /\ best_params = EmptyDict
    /\ calls = <<>>
    /\ examined = <<>>

\* the loop nest starts a further pass (lines 492-498); within Next this is
\* a NextCombination step, and it is possible exactly when that one is
NextPass ==
    /\ pc = "loop"
    /\ pending = <<>>
    /\ IF combination_counter = 0
       THEN \A i \in 1..6 : ListLen(cfg, i) > 0
       ELSE HasNext(cfg, it)
    /\ combination_counter' = combination_counter + 1

\* the interpreter runs the next statement of optimize_parameters whenever
\* there is one: the loop header, the loop body and the code after the loop
\* nest are each taken if they stay possible; whether an append fails is the
\* file system's choice and is owed nothing
SpecFair ==
    /\ InitFair
    /\ [][Next]_vars
    /\ WF_combination_counter(NextPass)
    /\ WF_vars(HandleResult)
    /\ WF_vars(Finish)

----------------------------------------------------------------------------
(* Claims about analyze_pattern_performance (SpecPerf) *)

EntryPrice == data[pattern_row].close
FutureRows == (pattern_row + 1)..Len(data)
BullTypes == {Bull, L_Bull}
BearTypes == {Bear, L_Bear}

StopFires(j) ==
    IF pattern_type \in BullTypes
    THEN data[j].low * 100 < EntryPrice * (100 - params.stop_percent)
    ELSE data[j].high * 100 > EntryPrice * (100 + params.stop_percent)

TargetFires(j) ==
    IF pattern_type \in BullTypes
    THEN data[j].high * 100 >= EntryPrice * (100 + params.target_percent)
    ELSE data[j].low * 100 <= EntryPrice * (100 - params.target_percent)

FirstFiring(j) ==
    /\ StopFires(j) \/ TargetFires(j)
    /\ \A i \in FutureRows : i < j => ~StopFires(i) /\ ~TargetFires(i)

\* C1: the stop is checked before the target on every future bar: when the
\* first future bar on which either condition fires breaches the stop, the
\* outcome is failure, also when that same bar reaches the target (bull:
\* low < entry*(1-stop/100); bear: high > entry*(1+stop/100)).
C1_StopBeforeTarget ==
    pc = "done" =>
        \A j \in FutureRows : (FirstFiring(j) /\ StopFires(j)) => ret = FALSE

C1_Witness ==
    /\ pc = "done"
    /\ pattern_type \in BullTypes
    /\ \E j \in FutureRows : FirstFiring(j) /\ StopFires(j) /\ TargetFires(j)
    /\ ret = FALSE

\* C2: for a bull type the outcome is success iff some bar j strictly after
\* the occurrence has high_j >= entry*(1+target/100) while every bar strictly
\* after the occurrence up to and including j has low >= entry*(1-stop/100);
\* the occurrence's own bar and the bars after the deciding bar do not matter.
C2_BullSuccessIff ==
    (pc = "done" /\ pattern_type \in BullTypes) =>
        (ret = TRUE <=>
            \E j \in FutureRows :
                /\ data[j].high * 100 >= EntryPrice * (100 + params.target_percent)
                /\ \A i \in FutureRows :
                      i <= j => data[i].low * 100 >= EntryPrice * (100 - params.stop_percent))

\* a bar above the stop that misses the target, then a later bar that reaches
\* it; the occurrence's own bar is below the stop and a bar below the stop
\* follows the deciding bar
C2_Witness ==
    /\ pc = "done"
    /\ pattern_type \in BullTypes
    /\ ret = TRUE
    /\ Len(data) >= pattern_row + 3
    /\ data[pattern_row].low * 100 < EntryPrice * (100 - params.stop_percent)
    /\ ~TargetFires(pattern_row + 1) /\ ~StopFires(pattern_row + 1)
    /\ TargetFires(pattern_row + 2)
    /\ StopFires(pattern_row + 3)

\* C3: when the bars after the occurrence are exhausted without the stop or
\* the target firing (also when there is no bar after the occurrence), the
\* outcome is failure, a boolean and never success.
C3_ExhaustedIsFailure ==
    (pc = "done" /\ \A j \in FutureRows : ~StopFires(j) /\ ~TargetFires(j))
        => ret = FALSE

C3_Witness ==
    /\ pc = "done"
    /\ pattern_type \in BullTypes
    /\ Len(data) > pattern_row
    /\ \A j \in FutureRows : ~StopFires(j) /\ ~TargetFires(j)
    /\ data[Len(data)].close >= EntryPrice
    /\ ret = FALSE

C3_WitnessLastBar ==
    /\ pc = "done"
    /\ pattern_row = Len(data)
    /\ ret = FALSE

\* C23: for a bear type the outcome is success iff some bar j strictly after
\* the occurrence has low_j <= entry*(1-target/100) while every bar strictly
\* after the occurrence up to and including j has high <= entry*(1+stop/100):
\* a high equal to the stop price does not stop the trade and a low equal to
\* the target price reaches the target.
C23_BearSuccessIff ==
    (pc = "done" /\ pattern_type \in BearTypes) =>
        (ret = TRUE <=>
            \E j \in FutureRows :
                /\ data[j].low * 100 <= EntryPrice * (100 - params.target_percent)
                /\ \A i \in FutureRows :
                      i <= j => data[i].high * 100 <= EntryPrice * (100 + params.stop_percent))

\* a bear trade that succeeds on a low equal to the target price after a
\* bar whose high equals the stop price
C23_Witness ==
    /\ pc = "done"
    /\ pattern_type \in BearTypes
    /\ ret = TRUE
    /\ Len(data) >= pattern_row + 2
    /\ data[pattern_row + 1].high * 100 = EntryPrice * (100 + params.stop_percent)
    /\ ~TargetFires(pattern_row + 1)
    /\ data[pattern_row + 2].low * 100 = EntryPrice * (100 - params.target_percent)

----------------------------------------------------------------------------
(* Claims about find_extreme_levels (SpecLevels) *)

ReturnedLevels ==
    { ret.support_levels[k] : k \in 1..Len(ret.support_levels) }
        \cup { ret.resistance_levels[k] : k \in 1..Len(ret.resistance_levels) }

\* 0-based index of the bar a level was taken from (times are distinct)
SourceIndex(lv) == (CHOOSE i \in 1..Len(data) : data[i].time = lv[2]) - 1

\* C4: every returned support or resistance level originates from a bar at
\* an index i with w <= i <= n-1-w, w = extrema_order, n = series length.
C4_NoLevelNearBoundary ==
    pc = "done" =>
        \A lv \in ReturnedLevels :
            /\ params.extrema_order <= SourceIndex(lv)
            /\ SourceIndex(lv) <= Len(data) - 1 - params.extrema_order

\* the bars of the entire series whose close differs from price by strictly
\* less than price * touch_threshold / 100
TouchingBars(price) ==
    { j \in 1..Len(data) :
        Abs(data[j].close - price) * 100 < price * params.touch_threshold }

\* the bars argrelextrema selects with the comparator
Candidates(comparator) ==
    LET idx == argrelextrema([i \in 1..Len(data) |-> data[i].close], comparator,
                             params.extrema_order)
    IN  { idx[k] : k \in 1..Len(idx) }

LevelSet(levels) == { levels[k] : k \in 1..Len(levels) }

\* C15: every returned support or resistance level is touched by at least
\* min_touches bars of the entire series, a touch being a close strictly
\* less than price * touch_threshold / 100 away from the level's price, and
\* every extremum candidate touched that often is returned.
C15_TouchFilter ==
    pc = "done" =>
        /\ \A lv \in ReturnedLevels :
              Cardinality(TouchingBars(lv[1])) >= params.min_touches
        /\ \A i \in Candidates(np_less) :
              Cardinality(TouchingBars(data[i].close)) >= params.min_touches
                 => <<data[i].close, data[i].time>> \in LevelSet(ret.support_levels)
        /\ \A i \in Candidates(np_greater) :
              Cardinality(TouchingBars(data[i].close)) >= params.min_touches
                 => <<data[i].close, data[i].time>> \in LevelSet(ret.resistance_levels)
        /\ Len(ret.support_levels) <= Cardinality(Candidates(np_less))
        /\ Len(ret.resistance_levels) <= Cardinality(Candidates(np_greater))

\* a level is returned, and a candidate is dropped that the bars lying
\* exactly touch_threshold percent from it would have carried to min_touches
C15_Witness ==
    /\ pc = "done"
    /\ ReturnedLevels # {}
    /\ \E i \in Candidates(np_less) \cup Candidates(np_greater) :
          /\ <<data[i].close, data[i].time>> \notin ReturnedLevels
          /\ Cardinality({ j \in 1..Len(data) :
                            Abs(data[j].close - data[i].close) * 100
                               <= data[i].close * params.touch_threshold })
                >= params.min_touches

\* C16: when extrema_order exceeds half the series length,
\* find_extreme_levels returns an empty support list and an empty
\* resistance list.
C16_WideWindowGivesNoLevel ==
    (pc = "done" /\ 2 * params.extrema_order > Len(data)) =>
        /\ ret.support_levels = <<>>
        /\ ret.resistance_levels = <<>>

InteriorBars ==
    { i \in 1..Len(data) :
        /\ i - params.extrema_order >= 1
        /\ i + params.extrema_order <= Len(data) }

\* the bars within extrema_order bars of bar i, bar i excluded
Window(i) ==
    ((i - params.extrema_order)..(i + params.extrema_order)) \ {i}

\* C22: with min_touches = 1, so that every candidate is returned, a bar i
\* with at least extrema_order bars on each side yields the resistance level
\* (close[i], time[i]) iff close[i] is strictly greater than the close of
\* every bar of its window, and the support level (close[i], time[i]) iff it
\* is strictly smaller than all of them; an equal neighbour disqualifies it.
C22_StrictExtremumInWindow ==
    (pc = "done" /\ params.min_touches = 1) =>
        \A i \in InteriorBars :
            /\ <<data[i].close, data[i].time>> \in LevelSet(ret.resistance_levels)
                  <=> \A j \in Window(i) : data[i].close > data[j].close
            /\ <<data[i].close, data[i].time>> \in LevelSet(ret.support_levels)
                  <=> \A j \in Window(i) : data[i].close < data[j].close

\* interior bars gave a resistance and a support level, and an interior bar
\* that only an equal neighbour keeps from being a maximum gave none
C22_Witness ==
    /\ pc = "done"
    /\ params.min_touches = 1
    /\ \E i \in InteriorBars :
          <<data[i].close, data[i].time>> \in LevelSet(ret.resistance_levels)
    /\ \E i \in InteriorBars :
          <<data[i].close, data[i].time>> \in LevelSet(ret.support_levels)
    /\ \E i \in InteriorBars :
          /\ \A j \in Window(i) : data[i].close >= data[j].close
          /\ \E j \in Window(i) : data[i].close = data[j].close
          /\ \E j \in Window(i) : data[i].close > data[j].close
          /\ <<data[i].close, data[i].time>> \notin ReturnedLevels

----------------------------------------------------------------------------
(* Claims about check_pattern_levels (SpecCheck) *)

RowPrice == data[pattern_row].close
RowTime == data[pattern_row].time

PriceNear(lv) ==
    Abs(RowPrice - lv[1]) * 100 < RowPrice * params.level_proximity_threshold

EarlierNearLevel(levels) ==
    \E k \in 1..Len(levels) : levels[k][2] < RowTime /\ PriceNear(levels[k])

\* C6: the time boundary is strict: a near-support or near-resistance flag
\* is set only when some level of that list has formation_time strictly
\* earlier than the occurrence's time (and is near in price); levels formed
\* at the occurrence's time or later never set a flag.
C6_StrictTimeBoundary ==
    pc = "done" =>
        /\ (ret.standard_bull \/ ret.logical_bear) => EarlierNearLevel(support_levels)
        /\ (ret.standard_bear \/ ret.logical_bull) => EarlierNearLevel(resistance_levels)

\* a support level at the occurrence's own price formed at the occurrence's
\* own time, and the support flags stay unset
C6_Witness ==
    /\ pc = "done"
    /\ \E k \in 1..Len(support_levels) : support_levels[k] = <<RowPrice, RowTime>>
    /\ ~ret.standard_bull
    /\ ~ret.logical_bear

\* the orders in which a list of levels can be iterated
Reorderings(levels) ==
    { [i \in 1..Len(levels) |-> levels[f[i]]] :
         f \in { g \in [1..Len(levels) -> 1..Len(levels)] :
                    \A i, j \in 1..Len(levels) : g[i] = g[j] => i = j } }

\* the policy that takes, of the earlier near levels, one nearest in price
NearestEarlierNearLevel(levels) ==
    \E k \in 1..Len(levels) :
        /\ levels[k][2] < RowTime /\ PriceNear(levels[k])
        /\ \A j \in 1..Len(levels) :
              (levels[j][2] < RowTime /\ PriceNear(levels[j]))
                 => Abs(RowPrice - levels[k][1]) <= Abs(RowPrice - levels[j][1])

\* C27: the flags do not depend on the order of the level lists: the two
\* near-support flags are set iff some support level formed strictly before
\* the occurrence lies within level_proximity_threshold percent of the
\* occurrence's price (strictly, relative to that price), likewise the two
\* near-resistance flags; every reordering of the lists gives the same
\* flags, and so does taking the nearest such level instead of the first.
C27_AnyQualifyingLevel ==
    pc = "done" =>
        /\ ret.standard_bull = EarlierNearLevel(support_levels)
        /\ ret.logical_bear = EarlierNearLevel(support_levels)
        /\ ret.standard_bear = EarlierNearLevel(resistance_levels)
        /\ ret.logical_bull = EarlierNearLevel(resistance_levels)
        /\ \A s \in Reorderings(support_levels) :
              \A r \in Reorderings(resistance_levels) :
                 check_pattern_levels(RowPrice, RowTime, s, r,
                                      params.level_proximity_threshold) = ret
        /\ ret.standard_bull = NearestEarlierNearLevel(support_levels)
        /\ ret.standard_bear = NearestEarlierNearLevel(resistance_levels)

\* the first support level is too late and the second sets the flags; the
\* first resistance level that is early and near is not the nearest one
C27_Witness ==
    /\ pc = "done"
    /\ Len(support_levels) = 2
    /\ support_levels[1][2] >= RowTime
    /\ ret.standard_bull
    /\ Len(resistance_levels) = 2
    /\ resistance_levels[1][2] < RowTime /\ PriceNear(resistance_levels[1])
    /\ resistance_levels[2][2] < RowTime /\ PriceNear(resistance_levels[2])
    /\ Abs(RowPrice - resistance_levels[2][1]) < Abs(RowPrice - resistance_levels[1][1])
    /\ params.level_proximity_threshold = 2

----------------------------------------------------------------------------
(* Claims about the classification of process_crypto_data (SpecCausal) *)

AgreeUpTo(k) ==
    /\ k <= Len(data) /\ k <= Len(data2)
    /\ \A i \in 1..k : data[i] = data2[i]

\* C5: classification is causal: two bar series that agree on every bar up
\* to and including k, with an occurrence at k, give that occurrence the same
\* category under the same parameter combination, whatever follows k.
C5_CausalClassification ==
    pc = "done" =>
        \A k \in 1..Len(data) :
            (AgreeUpTo(k) /\ data[k].candlestick_pattern # EmptyStr)
                => ret[k] = ret2[k]

----------------------------------------------------------------------------
(* Claims about calculate_average_accuracy (SpecAcc) *)

SumOfTotals ==
    pattern_stats[Bull].total + pattern_stats[Bear].total
        + pattern_stats[L_Bull].total + pattern_stats[L_Bear].total
SumOfSuccesses ==
    pattern_stats[Bull].success + pattern_stats[Bear].success
        + pattern_stats[L_Bull].success + pattern_stats[L_Bear].success

\* C9: when the four totals sum to less than MIN_PREDICTIONS_COUNT (0
\* included) the returned accuracy is the literal 0, not a quotient, whatever
\* the success ratio, and total_predictions is the raw sum of the totals.
C9_BelowMinimumIsZero ==
    (pc = "done" /\ SumOfTotals < MIN_PREDICTIONS_COUNT) =>
        /\ ret[1] = Zero
        /\ ret[2] = SumOfTotals

\* 2 successes out of 2
C9_Witness ==
    /\ pc = "done"
    /\ SumOfTotals = 2
    /\ SumOfSuccesses = 2
    /\ ret = <<Zero, 2>>

\* C24: when the four totals sum to MIN_PREDICTIONS_COUNT or more, the
\* result is (sum of successes / sum of totals * 100, sum of totals), pooled
\* over the four categories, and the accuracy returned is always between 0
\* and 100.
C24_PooledAccuracy ==
    pc = "done" =>
        /\ SumOfTotals >= MIN_PREDICTIONS_COUNT =>
              /\ ret[1][1] * SumOfTotals = SumOfSuccesses * 100 * ret[1][2]
              /\ ret[2] = SumOfTotals
        /\ ret[1][2] > 0
        /\ 0 <= ret[1][1]
        /\ ret[1][1] <= 100 * ret[1][2]

\* 1 of 1 and 0 of 2: pooled 33.3%, while the two rates average 50%
C24_Witness ==
    /\ pc = "done"
    /\ pattern_stats[Bull] = [total |-> 1, success |-> 1]
    /\ pattern_stats[L_Bear] = [total |-> 2, success |-> 0]
    /\ SumOfTotals = 3
    /\ ret = <<<<100, 3>>, 3>>

----------------------------------------------------------------------------
(* Claims about the grid search of optimize_parameters (Spec) *)

ExaminedSet == 1..Len(examined)
KeptSet == { i \in ExaminedSet : Kept(examined[i]) }

\* C7 as stated: best_accuracy is the maximum avg_accuracy over all results
\* examined so far, and best_params names the first result attaining it.
C7_BestOverAllExamined ==
    /\ \A i \in ExaminedSet : GreaterEq(best_accuracy, examined[i].avg_accuracy)
    /\ (\E i \in ExaminedSet : Greater(examined[i].avg_accuracy, Zero))
          => \E i \in ExaminedSet :
                /\ examined[i].avg_accuracy = best_accuracy
                /\ best_params = BestParams(examined[i].candle, examined[i].params)

\* C7 (amended): best_accuracy is the maximum avg_accuracy over the kept
\* results examined so far (0 and best_params = {} when there is none), and
\* best_params names the first kept result, in enumeration order, that
\* attains it: only a strictly greater accuracy replaces the best.
C7_BestOverKept ==
    IF KeptSet = {}
    THEN best_accuracy = Zero /\ best_params = EmptyDict
    ELSE \E i \in KeptSet :
            /\ \A j \in KeptSet :
                  GreaterEq(examined[i].avg_accuracy, examined[j].avg_accuracy)
            /\ \A j \in KeptSet :
                  j < i => Greater(examined[i].avg_accuracy, examined[j].avg_accuracy)
            /\ best_accuracy = examined[i].avg_accuracy
            /\ best_params = BestParams(examined[i].candle, examined[i].params)

\* a kept result was replaced by a strictly better one, a later kept result
\* ties the best without replacing it, and a result that is not kept was seen
C7_Witness ==
    \E h, i, j \in KeptSet :
        /\ h < i /\ i < j
        /\ Greater(examined[i].avg_accuracy, examined[h].avg_accuracy)
        /\ examined[i].avg_accuracy = best_accuracy
        /\ examined[j].avg_accuracy = best_accuracy
        /\ best_params = BestParams(examined[i].candle, examined[i].params)
        /\ best_params # BestParams(examined[j].candle, examined[j].params)
        /\ \E u \in ExaminedSet : ~Kept(examined[u])

RowKey(row) ==
    <<[extrema_order |-> row.extrema_order, min_touches |-> row.min_touches,
       touch_threshold |-> row.touch_threshold,
       level_proximity_threshold |-> row.level_proximity_threshold,
       target_percent |-> row.target_percent, stop_percent |-> row.stop_percent],
      row.candle_name>>

RowsFor(q, name) ==
    { i \in 1..Len(results_file) : RowKey(results_file[i]) = <<q, name>> }

\* C8 as stated: every combination and every pattern name of the catalog has
\* exactly one row, so that the log ends with combinations x names rows.
C8_RowPerCombinationAndName ==
    pc = "done" =>
        /\ \A k \in 1..Len(calls) : \A n \in 1..Len(candle_names) :
              Cardinality(RowsFor(calls[k], candle_names[n])) = 1
        /\ Len(results_file) = total_combinations(cfg) * Len(candle_names)

\* the names with a classified occurrence whose candlestick_pattern contains
\* the name, in catalog order
NamesWithOccurrences(q) ==
    LET column == PatternTypeColumn(data, q)
        Occurs(name) ==
            \E i \in 1..Len(data) :
                /\ column[i] # ""
                /\ Contains(data[i].candlestick_pattern, name)
    IN  SelectSeq(candle_names, Occurs)

RECURSIVE ExpectedKeys(_)
ExpectedKeys(cs) ==
    IF cs = <<>> THEN <<>>
    ELSE LET names == NamesWithOccurrences(cs[1])
         IN  [n \in 1..Len(names) |-> <<cs[1], names[n]>>] \o ExpectedKeys(Tail(cs))

\* C8 (amended): for every combination processed, one row is appended for
\* each catalog name contained in the candlestick_pattern of at least one
\* classified occurrence, kept or not, in catalog order, and no row for any
\* other name; the rows written and the results still to be handled are
\* exactly these, and a completed search has written all of them.
C8_RowPerResult ==
    /\ [i \in 1..Len(results_file) |-> RowKey(results_file[i])]
          \o [i \in 1..Len(pending) |-> <<params, pending[i].candle>>]
       = ExpectedKeys(calls)
    /\ pc = "done" => pending = <<>>

\* a finished search that wrote rows for kept and for unkept results and
\* none for some name of some combination
C8_Witness ==
    /\ pc = "done"
    /\ \E i \in ExaminedSet : Kept(examined[i])
    /\ \E i \in ExaminedSet : ~Kept(examined[i])
    /\ Len(results_file) = Len(examined)
    /\ \E k \in 1..Len(calls) : \E n \in 1..Len(candle_names) :
          RowsFor(calls[k], candle_names[n]) = {}

\* product of the lengths of the lists inside loop i
RECURSIVE Stride(_, _)
Stride(c, i) == IF i >= 6 THEN 1 ELSE ListLen(c, i + 1) * Stride(c, i + 1)

\* loop positions of the k-th element of the cartesian product in
\* lexicographic order, the last list varying fastest
Lexicographic(c, k) ==
    [i \in 1..6 |-> (((k - 1) \div Stride(c, i)) % ListLen(c, i)) + 1]

\* C10: process_crypto_data is called once for each element of the cartesian
\* product of the six lists, in lexicographic order with stop_percent
\* varying fastest, none skipped or repeated, and when the loop ends
\* combination_counter equals total_combinations.
C10_CartesianProductInOrder ==
    /\ Len(calls) = combination_counter
    /\ combination_counter <= total_combinations(cfg)
    /\ \A k \in 1..Len(calls) : calls[k] = ParamsAt(cfg, Lexicographic(cfg, k))
    /\ pc = "done" => combination_counter = total_combinations(cfg)

C10_Witness ==
    /\ pc = "done"
    /\ \A i \in 1..6 : ListLen(cfg, i) > 1
    /\ Len(calls) = total_combinations(cfg)
    /\ calls[2].stop_percent # calls[1].stop_percent
    /\ calls[2].target_percent = calls[1].target_percent

\* what a call of process_crypto_data on the series gives for the last
\* combination handled
FreshResults(q) == process_crypto_data(data, q)

\* the levels held and the results still to be handled are those of a call
\* on the series as it is, and so is the result handled last
ResultsAreFresh ==
    /\ combination_counter > 0 =>
          LET fresh == FreshResults(params)
              all == fresh.results_by_candle
          IN  /\ support_levels = fresh.support_levels
              /\ resistance_levels = fresh.resistance_levels
              /\ Len(pending) <= Len(all)
              /\ pending = SubSeq(all, Len(all) - Len(pending) + 1, Len(all))
    /\ examined # <<>> =>
          LET e == examined[Len(examined)]
              all == FreshResults(e.params).results_by_candle
          IN  \E k \in 1..Len(all) :
                 /\ all[k].candle = e.candle
                 /\ all[k].avg_accuracy = e.avg_accuracy
                 /\ all[k].total_predictions = e.total_predictions

C12_NoFailureAborts == pc # "aborted"

\* the loop nest is exhausted and the best found has been returned
Finished ==
    IF pc = "done"
    THEN /\ combination_counter = total_combinations(cfg)
         /\ ret = <<best_params, best_accuracy>>
    ELSE FALSE

\* C13: the grid search eventually finishes: every combination has been
\* processed and (best_params, best_accuracy) is returned, also when no
\* level is found, no occurrence is classified and no result is kept.
C13_EventuallyFinishes == <>Finished

\* a search that is not cut short by a failing append does finish
C13_FinishesUnlessAborted == <>(pc = "aborted" \/ Finished)

----------------------------------------------------------------------------
(* Claims about the classification of process_crypto_data (SpecClassify) *)

IsBull(i) == Contains(data[i].candlestick_pattern, LabelBull)
IsBear(i) == Contains(data[i].candlestick_pattern, LabelBear)

\* bar i is within the proximity threshold of a level formed before it
NearLevel(i, levels) ==
    \E k \in 1..Len(levels) :
        /\ Abs(data[i].close - levels[k][1]) * 100
              < params.level_proximity_threshold * data[i].close
        /\ data[i].time > levels[k][2]

\* the category the priority order gives bar i
ExpectedCategory(i) ==
    IF (IsBull(i) /\ NearLevel(i, support_levels))
          \/ (IsBear(i) /\ NearLevel(i, resistance_levels))
    THEN "standard"
    ELSE IF IsBull(i) /\ NearLevel(i, resistance_levels) THEN "logical_bull"
    ELSE IF IsBear(i) /\ NearLevel(i, support_levels) THEN "logical_bear"
    ELSE ""

\* the bars counted in some result
CountedRows ==
    UNION { { ret2[r].pattern_data[k] : k \in 1..Len(ret2[r].pattern_data) } :
            r \in 1..Len(ret2) }

\* C14: every occurrence gets exactly one of standard, logical_bull,
\* logical_bear and none, tested in this order: standard iff bull near
\* support or bear near resistance, else logical_bull iff bull near
\* resistance, else logical_bear iff bear near support, else none; the two
\* flags are never both set, and exactly the occurrences with a category
\* other than none enter the statistics.
C14_PriorityOrder ==
    pc = "done" =>
        /\ \A i \in 1..Len(data) :
              /\ ret[i].pattern_type = ExpectedCategory(i)
              /\ ret[i].standard_pattern <=> (ret[i].pattern_type = "standard")
              /\ ret[i].logical_pattern
                    <=> (ret[i].pattern_type \in {"logical_bull", "logical_bear"})
              /\ ~(ret[i].standard_pattern /\ ret[i].logical_pattern)
        /\ CountedRows = { i \in 1..Len(data) : ExpectedCategory(i) # "" }
        /\ \A r \in 1..Len(ret2) :
              ret2[r].total_predictions = Len(ret2[r].pattern_data)

\* a bull occurrence near a support and a resistance level is standard, and
\* another occurrence is left out of the statistics
C14_Witness ==
    /\ pc = "done"
    /\ \E i \in 1..Len(data) :
          /\ IsBull(i)
          /\ NearLevel(i, support_levels)
          /\ NearLevel(i, resistance_levels)
          /\ ret[i].pattern_type = "standard"
          /\ i \in CountedRows
    /\ \E i \in 1..Len(data) :
          /\ data[i].candlestick_pattern # EmptyStr
          /\ ret[i].pattern_type = ""
          /\ i \notin CountedRows

----------------------------------------------------------------------------
(* Claims about the naming of pattern occurrences (SpecLabel) *)

Firing(i) == { k \in 1..Len(candle_names) : data[i].signals[k] # 0 }

\* the first pattern in catalog order whose signal on bar i is nonzero
FirstFiringPattern(i) == CHOOSE k \in Firing(i) : \A j \in Firing(i) : k <= j

\* bar i carries the occurrence of its first firing pattern, bull for a
\* positive and bear for a negative signal
NamedByFirstFiring(i) ==
    data[i].candlestick_pattern =
        candle_names[FirstFiringPattern(i)]
            \o (IF data[i].signals[FirstFiringPattern(i)] > 0
                THEN LabelBull ELSE LabelBear)

\* C18: a bar on which no catalog pattern has a nonzero signal gets no
\* occurrence; any other bar gets the occurrence of the first pattern in
\* catalog order whose signal is nonzero, however many patterns fire and
\* whatever their magnitudes, bull if that signal is positive and bear if
\* it is negative.
C18_FirstFiringPatternNamesTheBar ==
    pc = "done" =>
        \A i \in 1..Len(data) :
            IF Firing(i) = {}
            THEN data[i].candlestick_pattern = EmptyStr
            ELSE NamedByFirstFiring(i)

\* the rule as the programs apply it: the grid search program and
\* Candlestic-patterns-with-extremum-levels.py name every bar with a firing
\* pattern, Candlestick-pattern-with-levels.py only a bar on which exactly
\* one pattern fires
C18_RuleByProgram ==
    pc = "done" =>
        \A i \in 1..Len(data) :
            IF Firing(i) = {}
               \/ (script = PatternWithLevels /\ Cardinality(Firing(i)) > 1)
            THEN data[i].candlestick_pattern = EmptyStr
            ELSE NamedByFirstFiring(i)

----------------------------------------------------------------------------
(* Claims about the chart path of optimize_parameters (Spec) *)

\* avg_accuracy >= 60.0 and total_predictions >= 3
ChartWorthy(e) ==
    /\ e.avg_accuracy[1] >= MIN_ACCURACY_THRESHOLD * e.avg_accuracy[2]
    /\ e.total_predictions >= MIN_PREDICTIONS_COUNT

ChartedSet == { i \in ExaminedSet : examined[i].chart_called }

\* C19: create_and_save_chart is called for a result if and only if its
\* avg_accuracy is at least MIN_ACCURACY_THRESHOLD and its total_predictions
\* at least MIN_PREDICTIONS_COUNT; saved_charts grows by one at a time and
\* only while such a result is handled, so that no other result ever
\* produces a chart.
C19_ChartOnlyWhenWorthy ==
    /\ [](/\ \A i \in ExaminedSet :
                examined[i].chart_called <=> ChartWorthy(examined[i])
          /\ saved_charts <= Cardinality(ChartedSet))
    /\ [][saved_charts' # saved_charts =>
             /\ pending # <<>>
             /\ ChartWorthy(Head(pending))
             /\ saved_charts' = saved_charts + 1]_vars

\* results with enough predictions were seen on both sides of the accuracy
\* threshold, one chart was saved and one call saved none
C19_Witness ==
    /\ \E i \in ExaminedSet :
          /\ examined[i].total_predictions >= MIN_PREDICTIONS_COUNT
          /\ ~examined[i].chart_called
    /\ Cardinality(ChartedSet) >= 2
    /\ saved_charts = 1
    /\ pc = "done"

----------------------------------------------------------------------------
(* Claims about a combination without levels (Spec) *)

\* the combination being processed has neither a support nor a resistance
\* level
NoLevelFound ==
    /\ combination_counter > 0
    /\ support_levels = <<>>
    /\ resistance_levels = <<>>

\* C20: when find_extreme_levels returns no support and no resistance level
\* for a combination, every occurrence is classified none, no result, row
\* or count exists for that combination, and the search is not ended by an
\* error.
C20_NoLevelNoOccurrence ==
    NoLevelFound =>
        /\ \A i \in 1..Len(data) : PatternTypeColumn(data, params)[i] = ""
        /\ pending = <<>>
        /\ \A i \in ExaminedSet : examined[i].params # params
        /\ \A i \in 1..Len(results_file) : RowKey(results_file[i])[1] # params
        /\ pc # "aborted"

\* a series with occurrences and no level, searched to the end
C20_Witness ==
    /\ NoLevelFound
    /\ pc = "done"
    /\ \E i \in 1..Len(data) : data[i].candlestick_pattern # EmptyStr
    /\ Len(calls) = total_combinations(cfg)
    /\ Len(calls) > 1
    /\ results_file = <<>>

----------------------------------------------------------------------------
(* Claims about the selection of a pattern name's occurrences (Spec) *)

\* the bars the current combination classifies
ClassifiedRows ==
    { i \in 1..Len(data) : PatternTypeColumn(data, params)[i] # "" }

\* the classified bars whose occurrence carries exactly this pattern name
RowsNamed(candle) ==
    { i \in ClassifiedRows :
        data[i].candlestick_pattern \in {candle \o LabelBull, candle \o LabelBear} }

RECURSIVE SumOfPredictions(_)
SumOfPredictions(results) ==
    IF results = <<>> THEN 0
    ELSE results[1].total_predictions + SumOfPredictions(Tail(results))

\* the results of the current combination already taken from
\* results_by_candle
HandledOfCombination ==
    SelectSeq(examined, LAMBDA e : e.params = params)

\* C21: the occurrences aggregated under a pattern name are exactly the
\* classified occurrences of that name, also when one catalog name is a
\* substring of another, so that total_predictions summed over the pattern
\* names of a combination equals the number of classified occurrences.
C21_OneNamePerOccurrence ==
    (combination_counter > 0 /\ pc # "aborted") =>
        /\ \A r \in 1..Len(pending) :
              { pending[r].pattern_data[k] : k \in 1..Len(pending[r].pattern_data) }
                 = RowsNamed(pending[r].candle)
        /\ SumOfPredictions(HandledOfCombination) + SumOfPredictions(pending)
              = Cardinality(ClassifiedRows)

----------------------------------------------------------------------------
(* Claims about a chart that fails (Spec) *)

\* C25: whether the chart of a kept result is saved or fails decides
\* nothing but saved_charts: the row appended, the results still to be
\* handled, the loop counters and the best found after a result has been
\* handled are fixed by the state before it, for this result and so for
\* every later one.
C25_ChartOutcomeOnlyCounts ==
    [][(pending # <<>> /\ pc' = "loop") =>
          LET r == Head(pending)
          IN  /\ results_file' = Append(results_file, Row(params, r))
              /\ pending' = Tail(pending)
              /\ IF ChartWorthy(r) /\ Greater(r.avg_accuracy, best_accuracy)
                 THEN /\ best_accuracy' = r.avg_accuracy
                      /\ best_params' = BestParams(r.candle, params)
                 ELSE /\ best_accuracy' = best_accuracy
                      /\ best_params' = best_params
              /\ saved_charts' \in {saved_charts, saved_charts + 1}
              /\ UNCHANGED <<data, params, support_levels, resistance_levels,
                             cfg, it, combination_counter, calls>>]_vars

\* every chart of a finished search failed, and the best found is set
C25_Witness ==
    /\ pc = "done"
    /\ Cardinality(ChartedSet) >= 2
    /\ saved_charts = 0
    /\ Greater(best_accuracy, Zero)
    /\ best_params # EmptyDict

----------------------------------------------------------------------------
(* Claims about the order of the combinations (Spec) *)

\* the cells of the grid, as a set
Cells ==
    { ParamsAt(cfg, <<a, b, c, d, e, f>>) :
         a \in 1..ListLen(cfg, 1), b \in 1..ListLen(cfg, 2), c \in 1..ListLen(cfg, 3),
         d \in 1..ListLen(cfg, 4), e \in 1..ListLen(cfg, 5), f \in 1..ListLen(cfg, 6) }

\* the results of the cells, each evaluated on its own
CellResults ==
    UNION { LET results == process_crypto_data(data, q).results_by_candle
            IN  { [params |-> q, result |-> results[n]] : n \in 1..Len(results) } :
            q \in Cells }

AnyOrderRows == { Row(e.params, e.result) : e \in CellResults }

\* what a fold from 0 with "greater accuracy wins" leaves, in any order:
\* the greatest of 0 and the accuracies folded
GreatestOf(accuracies) ==
    CHOOSE a \in accuracies \cup {Zero} :
        \A b \in accuracies \cup {Zero} : GreaterEq(a, b)

\* C26 as stated: the rows written are those of the cells evaluated in any
\* order, and the final best_accuracy is the fold of the accuracies of all
\* their results with "greater accuracy wins".
C26_FoldOverAllResults ==
    pc = "done" =>
        /\ { results_file[i] : i \in 1..Len(results_file) } = AnyOrderRows
        /\ best_accuracy = GreatestOf({ e.result.avg_accuracy : e \in CellResults })

\* C26 (amended): the rows written are those of the cells evaluated in any
\* order, one row per result, and the final best_accuracy is the fold with
\* "greater accuracy wins" of the accuracies of the kept results only
\* (avg_accuracy >= MIN_ACCURACY_THRESHOLD and total_predictions >=
\* MIN_PREDICTIONS_COUNT); best_params names a kept result of that accuracy.
C26_FoldOverKeptResults ==
    pc = "done" =>
        /\ { results_file[i] : i \in 1..Len(results_file) } = AnyOrderRows
        /\ Len(results_file) = Cardinality(AnyOrderRows)
        /\ best_accuracy
              = GreatestOf({ e.result.avg_accuracy : e \in { x \in CellResults : Kept(x.result) } })
        /\ IF \E e \in CellResults : Kept(e.result)
           THEN \E e \in CellResults :
                   /\ Kept(e.result)
                   /\ e.result.avg_accuracy = best_accuracy
                   /\ best_params = BestParams(e.result.candle, e.params)
           ELSE best_params = EmptyDict

\* a finished search whose best kept result came before a lesser kept result
\* in loop order, with a result that is not kept
C26_Witness ==
    /\ pc = "done"
    /\ \E i, j \in KeptSet :
          /\ i < j
          /\ examined[i].avg_accuracy = best_accuracy
          /\ Greater(best_accuracy, examined[j].avg_accuracy)
    /\ \E u \in ExaminedSet : ~Kept(examined[u])

----------------------------------------------------------------------------
(* Claims about the category counters of a result (Spec) *)

\* the category key that the classification of bar i calls for
ExpectedKey(i) ==
    IF ExpectedCategory(i) = "standard" THEN (IF IsBull(i) THEN Bull ELSE Bear)
    ELSE IF ExpectedCategory(i) = "logical_bull" THEN L_Bull
    ELSE IF ExpectedCategory(i) = "logical_bear" THEN L_Bear
    ELSE EmptyStr

\* C28: in every result of process_crypto_data each of the four categories
\* has 0 <= success <= total; every selected occurrence is counted in the
\* total of exactly one category (standard and bull in Bull, standard and
\* bear in Bear, logical_bull in L_Bull, logical_bear in L_Bear), never
\* under another key, so the four totals sum to the number of selected
\* occurrences.
C28_CategoryCounters ==
    \A n \in 1..Len(pending) :
        LET stats == pending[n].pattern_stats
            rows == pending[n].pattern_data
        IN  /\ DOMAIN stats = PatternTypes
            /\ \A t \in PatternTypes :
                  /\ 0 <= stats[t].success
                  /\ stats[t].success <= stats[t].total
                  /\ stats[t].total
                        = Cardinality({ k \in 1..Len(rows) : ExpectedKey(rows[k]) = t })
            /\ \A k \in 1..Len(rows) : ExpectedKey(rows[k]) \in PatternTypes
            /\ stats[Bull].total + stats[Bear].total + stats[L_Bull].total
                  + stats[L_Bear].total = Len(rows)

\* a result that counts a standard bear occurrence in Bear and holds a
\* category with successes and failures
C28_Witness ==
    \E n \in 1..Len(pending) :
        /\ pending[n].pattern_stats[Bear].total > 0
        /\ \E t \in PatternTypes :
              /\ pending[n].pattern_stats[t].success > 0
              /\ pending[n].pattern_stats[t].success < pending[n].pattern_stats[t].total

----------------------------------------------------------------------------
(* Claims about what target_percent and stop_percent influence (Spec) *)

\* the combinations of the grid that differ from q in target_percent and
\* stop_percent only
OutcomeVariants(q) ==
    { [q EXCEPT !.target_percent = cfg.TARGET_PERCENT_VALUES[e],
                !.stop_percent = cfg.STOP_PERCENT_VALUES[f]] :
         e \in 1..ListLen(cfg, 5), f \in 1..ListLen(cfg, 6) }

TotalsOf(stats) == [t \in PatternTypes |-> stats[t].total]

\* C29: target_percent and stop_percent influence outcomes only: when a
\* combination has been processed, process_crypto_data gives, for every
\* combination that differs from it in these two alone, the same levels,
\* the same category for every bar, and for every pattern name the same
\* occurrences and the same four totals.
C29_OutcomesOnly ==
    [][combination_counter' # combination_counter =>
          LET column == PatternTypeColumn(data, params')
          IN  \A q \in OutcomeVariants(params') :
                  LET other == process_crypto_data(data, q)
                      results == other.results_by_candle
                  IN  /\ other.support_levels = support_levels'
                      /\ other.resistance_levels = resistance_levels'
                      /\ PatternTypeColumn(data, q) = column
                      /\ Len(results) = Len(pending')
                      /\ \A n \in 1..Len(results) :
                            /\ results[n].candle = pending'[n].candle
                            /\ results[n].pattern_data = pending'[n].pattern_data
                            /\ TotalsOf(results[n].pattern_stats)
                                  = TotalsOf(pending'[n].pattern_stats)]_vars

\* a result in hand with a level found whose success counters, and so its
\* accuracy, differ under another target_percent or stop_percent
C29_Witness ==
    /\ pc = "loop"
    /\ pending # <<>>
    /\ support_levels # <<>> \/ resistance_levels # <<>>
    /\ \E q \in OutcomeVariants(params) :
          LET results == process_crypto_data(data, q).results_by_candle
          IN  /\ Len(results) = Len(pending)
              /\ results[1].pattern_stats # pending[1].pattern_stats
              /\ results[1].avg_accuracy # pending[1].avg_accuracy

----------------------------------------------------------------------------
(* Claims about the outcome under other percentages (SpecPerf) *)

\* percentages below, between and above those of PerfPercents
OtherPercents == 1..6

OutcomeWith(target_percent, stop_percent) ==
    analyze_pattern_performance(data, pattern_row, pattern_type,
                                target_percent, stop_percent)

\* C30: the outcome is monotone in the two percentages: a trade that
\* succeeds with target T and stop S, entered at a positive price, succeeds
\* on the same bars with every target T' <= T and every stop S' >= S, so a
\* greater target or a smaller stop can only turn successes into failures.
C30_MonotoneInPercents ==
    (pc = "done" /\ ret = TRUE /\ EntryPrice > 0) =>
        \A t \in OtherPercents, s \in OtherPercents :
            (t <= params.target_percent /\ s >= params.stop_percent)
               => OutcomeWith(t, s) = TRUE

\* a success that a greater target turns into a failure and a smaller stop
\* turns into a failure
C30_Witness ==
    /\ pc = "done"
    /\ ret = TRUE
    /\ \E t \in OtherPercents :
          t > params.target_percent /\ OutcomeWith(t, params.stop_percent) = FALSE
    /\ \E s \in OtherPercents :
          s < params.stop_percent /\ OutcomeWith(params.target_percent, s) = FALSE

====
